---------------------------- MODULE Spec2Model ----------------------------
(***************************************************************************)
(* A model of dsub's dstat command (dsub/commands/dstat.py): the field     *)
(* projection prepare_row, the three output formatters, the generator      *)
(* dstat_job_producer and the loop of main that consumes it.               *)
(*                                                                         *)
(* Python values are modelled as records [t, s]: t is the Python type      *)
(* ("none", "str", "int", "map") and s its content: the character codes    *)
(* of a str, <<n>> for the int n, the <<key, value>> pairs of a dict in    *)
(* the dict's own order, <<>> for None.  A dict that the program builds (a      *)
(* row) is a function from its keys to values; an OrderedDict is the       *)
(* sequence of its <<key, value>> pairs in insertion order.                *)
(***************************************************************************)
EXTENDS Integers, Sequences, FiniteSets, TLC

(***************************************************************************)
(* Bounds of the model.                                                    *)
(***************************************************************************)
\* the provider is queried at most MaxCycles times in one run
MaxCycles == 2
\* a provider query returns at most MaxTasks task handles
MaxTasks == 2
\* --poll-interval is drawn from 0..MaxPoll
MaxPoll == 1
\* status strings are at most MaxStrLen characters long
MaxStrLen == 31
\* a task handle of the projection check lacks at most MaxMissing fields
MaxMissing == 1

(***************************************************************************)
(* Python values.                                                          *)
(***************************************************************************)
None == [t |-> "none", s |-> <<>>]
PyStr(chars) == [t |-> "str", s |-> chars]
PyInt(n) == [t |-> "int", s |-> <<n>>]
PyMap(pairs) == [t |-> "map", s |-> pairs]

\* the truth value Python gives a value: None, '', 0 and {} are false
Truthy(v) ==
  CASE v.t = "none" -> FALSE
    [] v.t = "int" -> v.s[1] # 0
    [] OTHER -> v.s # <<>>

\* character codes
Dot == 46
Comma == 44
Space == 32
Equals == 61

\* a string of n characters, all positions distinguishable from their
\* neighbours, so that a prefix is told from any other substring
Text(n) == PyStr([i \in 1..n |-> 97 + (i % 26)])

RUNNING == PyStr(<<82, 85, 78, 78, 73, 78, 71>>)
SUCCESS == PyStr(<<83, 85, 67, 67, 69, 83, 83>>)
NA == PyStr(<<78, 65>>)
EmptyMap == PyMap(<<>>)

(***************************************************************************)
(* Task handles.  The provider's task handle exposes get_field(name,       *)
(* default) and raw_task_data(); a handle is modelled by the fields it     *)
(* holds and the provider-native record it wraps.                          *)
(***************************************************************************)
\* task.get_field(key, default): the field's value, the default when the
\* task lacks the field
get_field(task, key, default) ==
  IF key \in DOMAIN task.fields THEN task.fields[key] ELSE default

\* task.raw_task_data(): the provider's native representation
raw_task_data(task) == [operation |-> task.raw]

(***************************************************************************)
(* prepare_row                                                             *)
(***************************************************************************)
row_spec(key, optional, default_value) ==
  [key |-> key, optional |-> optional, default_value |-> default_value]

default_columns ==
  << row_spec("job-name", FALSE, None),
     row_spec("task-id", TRUE, None),
     row_spec("last-update", FALSE, None) >>

short_columns ==
  default_columns \o << row_spec("status-message", FALSE, None) >>

full_columns ==
  default_columns \o
  << row_spec("job-id", FALSE, None),
     row_spec("user-id", FALSE, None),
     row_spec("status", FALSE, None),
     row_spec("status-detail", FALSE, None),
     row_spec("create-time", FALSE, None),
     row_spec("end-time", FALSE, NA),
     row_spec("internal-id", FALSE, None),
     row_spec("logging", FALSE, None),
     row_spec("inputs", FALSE, EmptyMap),
     row_spec("outputs", FALSE, EmptyMap),
     row_spec("envs", FALSE, EmptyMap),
     row_spec("labels", FALSE, EmptyMap) >>

\* the test of line 203: is the column's value stored in the row?
\* (faulty variant: the optional flag is ignored)
IncludeAlways(col, value) == TRUE
\* line 203 as written
IncludeColumn(col, value) == ~col.optional \/ Truthy(value)

\* the loop of lines 198-204 over the first n columns
RECURSIVE RowOver(_, _, _)
RowOver(task, columns, n) ==
  IF n = 0 THEN << >>
  ELSE LET col == columns[n]
           value == get_field(task, col.key, col.default_value)
           row == RowOver(task, columns, n - 1)
       IN IF IncludeColumn(col, value)
          THEN [k \in DOMAIN row \cup {col.key} |->
                  IF k = col.key THEN value ELSE row[k]]
          ELSE row

prepare_row(task, full) ==
  LET columns == IF full THEN full_columns ELSE short_columns
  IN RowOver(task, columns, Len(columns))


(***************************************************************************)
(* The output formatters.  A formatter is [kind, full]: kind is "text",    *)
(* "yaml" or "json" (the class), full the flag its constructor stores.     *)
(***************************************************************************)
_MAX_ERROR_MESSAGE_LENGTH == 30

OutputFormatter(kind, full) == [kind |-> kind, full |-> full]

\* TextOutput.trim_display_field
\* (faulty variant: cuts at max_length, not max_length - 3)
TrimAtMaxLength(value, max_length) ==
  IF ~Truthy(value) THEN PyStr(<< >>)
  ELSE IF Len(value.s) > max_length
       THEN PyStr(SubSeq(value.s, 1, max_length) \o <<Dot, Dot, Dot>>)
       ELSE value
\* lines 69-73 as written
trim_display_field(value, max_length) ==
  IF ~Truthy(value) THEN PyStr(<< >>)
  ELSE IF Len(value.s) > max_length
       THEN PyStr(SubSeq(value.s, 1, max_length - 3) \o <<Dot, Dot, Dot>>)
       ELSE value

\* TextOutput.format_status
format_status(full, status) ==
  IF full THEN status
  ELSE trim_display_field(status, _MAX_ERROR_MESSAGE_LENGTH)

\* the order of Python strings
RECURSIVE StrLess(_, _)
StrLess(a, b) ==
  IF b = << >> THEN FALSE
  ELSE IF a = << >> THEN TRUE
  ELSE IF a[1] # b[1] THEN a[1] < b[1]
  ELSE StrLess(Tail(a), Tail(b))

\* sorted(values.iteritems()): the pairs ordered by key
RECURSIVE SortedItems(_)
SortedItems(pairs) ==
  IF pairs = << >> THEN << >>
  ELSE LET least == CHOOSE i \in 1..Len(pairs) :
                      \A j \in 1..Len(pairs) : ~StrLess(pairs[j][1], pairs[i][1])
           rest == [j \in 1..(Len(pairs) - 1) |->
                      IF j < least THEN pairs[j] ELSE pairs[j + 1]]
       IN << pairs[least] >> \o SortedItems(rest)

\* ', '.join('%s=%s' % (key, value) for key, value in items)
RECURSIVE JoinItems(_)
JoinItems(items) ==
  IF items = << >> THEN << >>
  ELSE LET head == items[1][1] \o <<Equals>> \o items[1][2]
       IN IF Len(items) = 1 THEN head
          ELSE head \o <<Comma, Space>> \o JoinItems(Tail(items))

\* TextOutput.format_inputs_outputs
format_inputs_outputs(values) == PyStr(JoinItems(SortedItems(values.s)))

\* the column_map of TextOutput.prepare_output: (field, label[, format])
column_map ==
  << [field |-> "job-id", label |-> "Job ID", format_fn |-> "-"],
     [field |-> "job-name", label |-> "Job Name", format_fn |-> "-"],
     [field |-> "task-id", label |-> "Task", format_fn |-> "-"],
     [field |-> "status-message", label |-> "Status",
      format_fn |-> "format_status"],
     [field |-> "status-detail", label |-> "Status-details", format_fn |-> "-"],
     [field |-> "last-update", label |-> "Last Update", format_fn |-> "-"],
     [field |-> "create-time", label |-> "Created", format_fn |-> "-"],
     [field |-> "end-time", label |-> "Ended", format_fn |-> "-"],
     [field |-> "user-id", label |-> "User", format_fn |-> "-"],
     [field |-> "internal-id", label |-> "Internal ID", format_fn |-> "-"],
     [field |-> "logging", label |-> "Logging", format_fn |-> "-"],
     [field |-> "inputs", label |-> "Inputs",
      format_fn |-> "format_inputs_outputs"],
     [field |-> "outputs", label |-> "Outputs",
      format_fn |-> "format_inputs_outputs"] >>

\* lines 113-117: the value stored under a column's label
FormatColumn(full, col, value) ==
  CASE col.format_fn = "format_status" -> format_status(full, value)
    [] col.format_fn = "format_inputs_outputs" -> format_inputs_outputs(value)
    [] OTHER -> value

\* the loop of lines 105-117 over the first n entries of column_map; the
\* OrderedDict is the sequence of its <<label, value>> pairs
RECURSIVE TextRowOver(_, _, _)
TextRowOver(full, row, n) ==
  IF n = 0 THEN << >>
  ELSE LET col == column_map[n]
           new_row == TextRowOver(full, row, n - 1)
       IN IF col.field \notin DOMAIN row THEN new_row
          ELSE Append(new_row,
                      << col.label, FormatColumn(full, col, row[col.field]) >>)

\* prepare_output of the formatter's class: TextOutput overrides it, YamlOutput
\* and JsonOutput inherit OutputFormatter's, which returns the row
prepare_output(formatter, row) ==
  IF formatter.kind = "text"
  THEN TextRowOver(formatter.full, row, Len(column_map))
  ELSE row

(***************************************************************************)
(* The inputs: task handles and the batches a provider query returns.      *)
(***************************************************************************)
Word(n) == PyStr([i \in 1..n |-> 65 + n])

\* every field a task handle may hold
FieldNames ==
  { "job-name", "task-id", "last-update", "status-message", "job-id",
    "user-id", "status", "status-detail", "create-time", "end-time",
    "internal-id", "logging", "inputs", "outputs", "envs", "labels",
    "task-status" }

\* a task that holds every field: task-id tid, status st, a status-message of
\* msgLen and a status-detail of detLen characters
AllFields(tid, st, msgLen, detLen) ==
  [k \in FieldNames |->
     CASE k = "task-id" -> tid
       [] k \in {"status", "task-status"} -> st
       [] k = "status-message" -> Text(msgLen)
       [] k = "status-detail" -> Text(detLen)
       [] k = "job-name" -> Word(5)
       [] k = "last-update" -> Word(6)
       [] k = "job-id" -> Word(7)
       [] k = "user-id" -> Word(4)
       [] k = "create-time" -> Word(8)
       [] k = "end-time" -> Word(9)
       [] k = "internal-id" -> Word(10)
       [] k = "logging" -> Word(11)
       [] k = "inputs" -> PyMap(<< <<Word(2).s, Word(3).s>>,
                                   <<Word(1).s, Word(4).s>> >>)
       [] k = "outputs" -> PyMap(<< <<Word(3).s, Word(1).s>> >>)
       [] k = "envs" -> PyMap(<< <<Word(1).s, Word(1).s>> >>)
       [] OTHER -> EmptyMap ]

TaskHandle(fields, keys, raw) ==
  [fields |-> [k \in keys |-> fields[k]], raw |-> raw]

\* the task handles of the poll loop: a running task of an array job, a
\* finished single task without task-id and end-time, and a task of which
\* the provider knows the job-id and create-time only
TaskSet ==
  { TaskHandle(AllFields(Word(1), RUNNING, 7, 31), FieldNames, 1),
    TaskHandle(AllFields(None, SUCCESS, 7, 0),
               FieldNames \ {"task-id", "inputs"}, 2),
    TaskHandle(AllFields(None, None, 0, 0), {"job-id", "create-time"}, 3) }

RECURSIVE SeqsUpTo(_, _)
SeqsUpTo(S, n) ==
  IF n = 0 THEN { << >> }
  ELSE LET shorter == SeqsUpTo(S, n - 1)
       IN shorter \cup { Append(q, x) : q \in { r \in shorter : Len(r) = n - 1 },
                                        x \in S }

\* what provider.lookup_job_tasks may return
Batches == SeqsUpTo(TaskSet, MaxTasks)

\* the task handles of the projection check
TaskIds == { None, PyStr(<< >>), Word(1), PyInt(0) }
StrLens == {0} \cup { n \in 1..MaxStrLen : n >= _MAX_ERROR_MESSAGE_LENGTH }
MissingSets == { m \in SUBSET FieldNames : Cardinality(m) <= MaxMissing }
RowTaskSet ==
  { TaskHandle(AllFields(tid, RUNNING, msgLen, detLen), FieldNames \ m, 1) :
      tid \in TaskIds, msgLen \in StrLens, detLen \in StrLens,
      m \in MissingSets }

Formats == { "text", "json", "yaml", "provider-json", "unset" }
Arguments ==
  [wait : BOOLEAN, poll_interval : 0..MaxPoll, full : BOOLEAN, format : Formats]

(***************************************************************************)
(* The state.                                                              *)
(***************************************************************************)
VARIABLES
  args,               \* the Namespace parse_arguments returned
  pc,                 \* where control is, in main or in the generator
  poll_interval,      \* main's poll_interval, the generator's parameter
  output_formatter,   \* main's output_formatter
  full_output,        \* the generator's parameter full_output
  raw_format,         \* the generator's parameter raw_format
  tasks,              \* the generator's tasks: the provider's answer
  idx,                \* the position of "for task in tasks"
  formatted_tasks,    \* the generator's formatted_tasks
  some_job_running,   \* the generator's some_job_running
  batch,              \* main's tasks: the list the generator yielded
  row_idx,            \* the position of main's "for row in tasks"
  table,              \* the table of the last print_table call
  printed,            \* the number of print_table calls so far
  events,             \* history: the queries, yields and sleeps, in order
  answers             \* history: per answered query, its size and RUNNING

vars ==
  << args, pc, poll_interval, output_formatter, full_output, raw_format,
     tasks, idx, formatted_tasks, some_job_running, batch, row_idx, table,
     printed, events, answers >>

Event(op, n) == [op |-> op, n |-> n]
Count(op) == Cardinality({ i \in 1..Len(events) : events[i].op = op })

\* does the provider's answer hold a task whose task-status is RUNNING?
HasRunning(ts) ==
  \E i \in 1..Len(ts) : get_field(ts[i], "task-status", None) = RUNNING

\* what the history keeps of an answer: how many tasks, and was one RUNNING
Answer(ts) == [size |-> Len(ts), running |-> HasRunning(ts)]

Init ==
  /\ args \in Arguments
  /\ pc = "main"
  /\ poll_interval = 0
  /\ output_formatter = OutputFormatter("text", FALSE)
  /\ full_output = FALSE
  /\ raw_format = FALSE
  /\ tasks = << >>
  /\ idx = 1
  /\ formatted_tasks = << >>
  /\ some_job_running = FALSE
  /\ batch = << >>
  /\ row_idx = 1
  /\ table = << >>
  /\ printed = 0
  /\ events = << >>
  /\ answers = << >>

(***************************************************************************)
(* main, up to the call that creates the generator (lines 292-339).        *)
(***************************************************************************)
\* lines 300-314: the formatter main constructs
FormatterFor(a) ==
  CASE a.format = "json" -> OutputFormatter("json", a.full)
    [] a.format = "text" -> OutputFormatter("text", a.full)
    [] a.format = "yaml" -> OutputFormatter("yaml", a.full)
    [] a.format = "provider-json" -> OutputFormatter("json", a.full)
    [] OTHER -> IF a.full THEN OutputFormatter("yaml", a.full)
                ELSE OutputFormatter("text", a.full)

\* line 320
\* (faulty variant: --wait is ignored)
PollIntervalIgnoringWait(a) == a.poll_interval
\* line 320 as written
PollIntervalFor(a) == IF a.wait THEN a.poll_interval ELSE 0

MainSetup ==
  /\ pc = "main"
  /\ output_formatter' = FormatterFor(args)
  /\ poll_interval' = PollIntervalFor(args)
  /\ full_output' = args.full
  /\ raw_format' = (args.format = "provider-json")
  /\ pc' = "start"
  /\ UNCHANGED << args, tasks, idx, formatted_tasks, some_job_running, batch,
                  row_idx, table, printed, events, answers >>

(***************************************************************************)
(* dstat_job_producer (lines 386-416), step by step.  main's for statement *)
(* calls next() on the generator: the first call enters the body, a later  *)
(* one resumes it after the yield.                                         *)
(***************************************************************************)
\* line 386, on the first next()
ProducerStart ==
  /\ pc = "start"
  /\ some_job_running' = TRUE
  /\ pc' = "while"
  /\ UNCHANGED << args, poll_interval, output_formatter, full_output,
                  raw_format, tasks, idx, formatted_tasks, batch, row_idx,
                  table, printed, events, answers >>

\* line 387
While ==
  /\ pc = "while"
  /\ pc' = IF some_job_running THEN "lookup" ELSE "done"
  /\ UNCHANGED << args, poll_interval, output_formatter, full_output,
                  raw_format, tasks, idx, formatted_tasks, some_job_running,
                  batch, row_idx, table, printed, events, answers >>

\* lines 389-399: the provider answers the query
LookupReturns ==
  /\ pc = "lookup"
  /\ Count("query") < MaxCycles
  /\ \E ts \in Batches :
       /\ tasks' = ts
       /\ answers' = Append(answers, Answer(ts))
  /\ events' = Append(events, Event("query", 0))
  /\ some_job_running' = FALSE
  /\ formatted_tasks' = << >>
  /\ idx' = 1
  /\ pc' = "for"
  /\ UNCHANGED << args, poll_interval, output_formatter, full_output,
                  raw_format, batch, row_idx, table, printed >>

\* lines 389-395: the provider raises; nothing in the generator or in main
\* catches it
LookupRaises ==
  /\ pc = "lookup"
  /\ Count("query") < MaxCycles
  /\ events' = Append(events, Event("query", 0))
  /\ pc' = "error"
  /\ UNCHANGED << args, poll_interval, output_formatter, full_output,
                  raw_format, tasks, idx, formatted_tasks, some_job_running,
                  batch, row_idx, table, printed, answers >>

\* lines 402-405: the element appended for a task
\* (faulty variant: raw_format is ignored)
FormatAlways(task, raw, full) == prepare_row(task, full)
\* lines 402-405 as written
FormatElement(task, raw, full) ==
  IF raw THEN raw_task_data(task) ELSE prepare_row(task, full)

\* lines 408-409: some_job_running after a task
\* (faulty variant: the last task alone decides)
TrackLast(running, task) == get_field(task, "task-status", None) = RUNNING
\* lines 408-409 as written
TrackRunning(running, task) ==
  IF get_field(task, "task-status", None) = RUNNING THEN TRUE ELSE running

\* lines 400-409: one pass of "for task in tasks"
FormatTask ==
  /\ pc = "for"
  /\ idx <= Len(tasks)
  /\ formatted_tasks' =
       Append(formatted_tasks, FormatElement(tasks[idx], raw_format, full_output))
  /\ some_job_running' = TrackRunning(some_job_running, tasks[idx])
  /\ idx' = idx + 1
  /\ UNCHANGED << args, pc, poll_interval, output_formatter, full_output,
                  raw_format, tasks, batch, row_idx, table, printed, events,
                  answers >>

\* lines 403-408: an access to the task handle raises
\* (faulty variant: the rows built so far are yielded before the error)
TaskRaisesAfterYield ==
  /\ pc = "for"
  /\ idx <= Len(tasks)
  /\ batch' = formatted_tasks
  /\ events' = Append(events, Event("yield", Len(formatted_tasks)))
  /\ pc' = "error"
  /\ UNCHANGED << args, poll_interval, output_formatter, full_output,
                  raw_format, tasks, idx, formatted_tasks, some_job_running,
                  row_idx, table, printed, answers >>
\* as written: the error leaves the generator, nothing is yielded
TaskRaises ==
  /\ pc = "for"
  /\ idx <= Len(tasks)
  /\ pc' = "error"
  /\ UNCHANGED << args, poll_interval, output_formatter, full_output,
                  raw_format, tasks, idx, formatted_tasks, some_job_running,
                  batch, row_idx, table, printed, events, answers >>

\* line 412: the for loop is over, the generator yields to main's line 342
Yield ==
  /\ pc = "for"
  /\ idx > Len(tasks)
  /\ batch' = formatted_tasks
  /\ events' = Append(events, Event("yield", Len(formatted_tasks)))
  /\ row_idx' = 1
  /\ pc' = "rows"
  /\ UNCHANGED << args, poll_interval, output_formatter, full_output,
                  raw_format, tasks, idx, formatted_tasks, some_job_running,
                  table, printed, answers >>

\* line 413: does the generator go on?
\* (faulty variants: one of the two conditions is ignored)
ContinueIfInterval(interval, running) == interval # 0
ContinueIfRunning(interval, running) == running
\* line 413 as written
ContinuePolling(interval, running) == interval # 0 /\ running

\* lines 413-416, on a later next(): sleep, or break, which ends the
\* generator and with it main's loop and main
Resume ==
  /\ pc = "resume"
  /\ pc' = IF ContinuePolling(poll_interval, some_job_running)
           THEN "sleep" ELSE "done"
  /\ UNCHANGED << args, poll_interval, output_formatter, full_output,
                  raw_format, tasks, idx, formatted_tasks, some_job_running,
                  batch, row_idx, table, printed, events, answers >>

\* line 414
Sleep ==
  /\ pc = "sleep"
  /\ events' = Append(events, Event("sleep", poll_interval))
  /\ pc' = "while"
  /\ UNCHANGED << args, poll_interval, output_formatter, full_output,
                  raw_format, tasks, idx, formatted_tasks, some_job_running,
                  batch, row_idx, table, printed, answers >>

(***************************************************************************)
(* main's loop over the generator (lines 342-347).                         *)
(***************************************************************************)
\* lines 343-347: one pass of "for row in tasks"
PrintRow ==
  /\ pc = "rows"
  /\ row_idx <= Len(batch)
  /\ table' = << prepare_output(output_formatter, batch[row_idx]) >>
  /\ printed' = printed + 1
  /\ row_idx' = row_idx + 1
  /\ UNCHANGED << args, pc, poll_interval, output_formatter, full_output,
                  raw_format, tasks, idx, formatted_tasks, some_job_running,
                  batch, events, answers >>

\* line 343 is over: back to line 342, which resumes the generator
EndRows ==
  /\ pc = "rows"
  /\ row_idx > Len(batch)
  /\ pc' = "resume"
  /\ UNCHANGED << args, poll_interval, output_formatter, full_output,
                  raw_format, tasks, idx, formatted_tasks, some_job_running,
                  batch, row_idx, table, printed, events, answers >>

Next ==
  \/ MainSetup
  \/ ProducerStart
  \/ While
  \/ LookupReturns
  \/ LookupRaises
  \/ FormatTask
  \/ TaskRaises
  \/ Yield
  \/ Resume
  \/ Sleep
  \/ PrintRow
  \/ EndRows

Spec == Init /\ [][Next]_vars

(***************************************************************************)
(* The projection and the formatters on their own: prepare_row applied to  *)
(* a task handle, then a formatter's prepare_output applied to the row.    *)
(* The row's verbosity and the formatter's are drawn independently: the    *)
(* two are separate functions, and only main ties them together.           *)
(***************************************************************************)
FormatterKinds == { "text", "yaml", "json" }

InitRow ==
  /\ args = [wait |-> FALSE, poll_interval |-> 0, full |-> FALSE,
             format |-> "unset"]
  /\ pc = "project"
  /\ poll_interval = 0
  /\ output_formatter \in
       { OutputFormatter(kind, full) : kind \in FormatterKinds, full \in BOOLEAN }
  /\ full_output \in BOOLEAN
  /\ raw_format = FALSE
  /\ tasks \in { << t >> : t \in RowTaskSet }
  /\ idx = 1
  /\ formatted_tasks = << >>
  /\ some_job_running = FALSE
  /\ batch = << >>
  /\ row_idx = 1
  /\ table = << >>
  /\ printed = 0
  /\ events = << >>
  /\ answers = << >>

\* prepare_row(task, full_output)
Project ==
  /\ pc = "project"
  /\ batch' = << prepare_row(tasks[1], full_output) >>
  /\ pc' = "present"
  /\ UNCHANGED << args, poll_interval, output_formatter, full_output,
                  raw_format, tasks, idx, formatted_tasks, some_job_running,
                  row_idx, table, printed, events, answers >>

\* output_formatter.prepare_output(row)
Present ==
  /\ pc = "present"
  /\ table' = << prepare_output(output_formatter, batch[1]) >>
  /\ pc' = "shown"
  /\ UNCHANGED << args, poll_interval, output_formatter, full_output,
                  raw_format, tasks, idx, formatted_tasks, some_job_running,
                  batch, row_idx, printed, events, answers >>

NextRow == Project \/ Present

SpecRow == InitRow /\ [][NextRow]_vars

(***************************************************************************)
(* Properties of the poll loop, checked under Spec.                        *)
(***************************************************************************)
Last(q) == q[Len(q)]
\* the positions of the yields among the events, and the k-th of them
YieldAt == { i \in 1..Len(events) : events[i].op = "yield" }
CycleOf(i) == Cardinality({ j \in YieldAt : j <= i })

\* C1: the generator ends after a cycle's batch if and only if poll_interval
\* is zero or the answer of that cycle holds no RUNNING task, and otherwise
\* sleeps poll_interval and goes back to the query; so, when it has ended,
\* the number of batches is the index of the first such cycle, and every
\* sleep follows a cycle whose own answer held a RUNNING task.
C1_TerminationRule ==
  /\ pc = "done" =>
       /\ Count("yield") = Len(answers)
       /\ Len(answers) >= 1
       /\ poll_interval = 0 \/ ~Last(answers).running
       /\ \A k \in 1..(Len(answers) - 1) :
            poll_interval # 0 /\ answers[k].running
  /\ pc = "sleep" =>
       /\ Count("yield") = Len(answers)
       /\ poll_interval # 0
       /\ Last(answers).running
  /\ \A i \in 1..Len(events) :
       events[i].op = "sleep" =>
         /\ events[i].n = poll_interval
         /\ answers[CycleOf(i)].running
         /\ i < Len(events) => events[i + 1].op = "query"
         /\ i = Len(events) => pc \in {"while", "lookup"}

\* C1 witness: a RUNNING task in the first answer, none in the second, and
\* the generator has ended after two batches
C1_Witness ==
  /\ pc = "done"
  /\ Len(answers) = 2
  /\ answers[1].running
  /\ ~answers[2].running
  /\ answers[2].size = 1
  /\ Count("yield") = 2

\* C2: when the first answer is empty the generator yields one empty batch,
\* has queried once, never sleeps and ends, whatever poll_interval is: every
\* state from that answer on is before the yield, in main's (empty) loop
\* over the batch, at the resumption or at the end, and can take its step.
C2_EmptyAnswerEnds ==
  (answers # << >> /\ answers[1].size = 0) =>
    /\ Count("query") = 1
    /\ Count("sleep") = 0
    /\ pc \in {"for", "rows", "resume", "done"}
    /\ pc # "for" =>
         /\ Count("yield") = 1
         /\ Last(events) = Event("yield", 0)
         /\ batch = << >>
    /\ pc # "done" => ENABLED Next

\* C2 witness: polling is on, the first answer was empty, the generator ended
C2_Witness ==
  /\ pc = "done"
  /\ poll_interval > 0
  /\ answers # << >>
  /\ answers[1].size = 0

\* C5 (as claimed): when main has rendered the batches yielded so far, it
\* has called print_table once per batch.
C5_OnePrintPerBatch ==
  pc \in {"resume", "done"} => printed = Count("yield")

\* C6: when the provider query or a task-handle access raises in cycle n,
\* the run is over: the failed cycle's query is the last event (no batch for
\* it, no sleep, no second query), nothing more can happen, and the batches
\* of the cycles before were yielded whole.
C6_ErrorEndsRun ==
  /\ Count("query") > Len(answers) =>
       pc = "error" /\ Count("query") = Len(answers) + 1
  /\ pc = "error" =>
       /\ events # << >>
       /\ Last(events).op = "query"
       /\ Count("yield") = Count("query") - 1
       /\ \A i \in YieldAt : events[i].n = answers[CycleOf(i)].size
       /\ ~ENABLED Next

\* C6 witness: in the second cycle the first task was formatted and the
\* access to the second raised
C6_Witness ==
  /\ pc = "error"
  /\ Count("query") = 2
  /\ Len(answers) = 2
  /\ Len(tasks) = 2
  /\ Len(formatted_tasks) = 1

\* C7: without --wait main passes poll_interval 0 and there is one cycle
\* only, whatever --poll-interval and the tasks are; a second query needs
\* --wait and a non-zero --poll-interval.
C7_WaitEnablesPolling ==
  pc # "main" =>
    /\ ~args.wait => poll_interval = 0
    /\ ~args.wait =>
         /\ Count("query") <= 1
         /\ Count("sleep") = 0
         /\ pc = "done" => Count("query") = 1 /\ Count("yield") = 1
    /\ Count("query") > 1 => args.wait /\ args.poll_interval # 0

\* C7 witness: no --wait, a non-zero --poll-interval, a RUNNING task in the
\* only answer, and the run has ended
C7_Witness ==
  /\ pc = "done"
  /\ ~args.wait
  /\ args.poll_interval # 0
  /\ answers[1].running

\* C9: the events are query, yield, (sleep, query, yield)*: a query is first
\* or follows a sleep, a yield follows a query, a sleep follows the yield of
\* a batch with a RUNNING task and only with poll_interval > 0; without an
\* error there are as many queries as yields once the batch is out, and the
\* last event of a run that ended is a yield.
C9_EventOrder ==
  /\ \A i \in 1..Len(events) :
       /\ events[i].op = "query" => i = 1 \/ events[i - 1].op = "sleep"
       /\ events[i].op = "yield" => i > 1 /\ events[i - 1].op = "query"
       /\ events[i].op = "sleep" =>
            /\ i > 1 /\ events[i - 1].op = "yield"
            /\ poll_interval > 0
            /\ answers[CycleOf(i)].running
  /\ Count("yield") <= Count("query")
  /\ Count("query") <= Count("yield") + 1
  /\ Count("sleep") = (IF Count("query") = 0 THEN 0 ELSE Count("query") - 1)
       + (IF pc \in {"while", "lookup"} /\ events # << >> THEN 1 ELSE 0)
  /\ pc \in {"rows", "resume", "sleep", "done"} =>
       Count("query") = Count("yield")
  /\ pc = "done" => events # << >> /\ Last(events).op = "yield"

\* C9 witness: two cycles with a sleep between them, and the run has ended
C9_Witness ==
  /\ pc = "done"
  /\ Len(events) = 5
  /\ events[3].op = "sleep"

\* C10: the batch that was yielded holds one element per task of the
\* answer, in the answer's order: the task's raw_task_data() with
\* raw_format, its prepare_row otherwise; some_job_running is whether a task
\* of the answer is RUNNING, and the generator goes on (sleeps) exactly when
\* that is so and poll_interval is not zero, in either mode.
C10_RawPassThrough ==
  /\ pc \in {"rows", "resume"} =>
       /\ Len(batch) = Len(tasks)
       /\ \A k \in 1..Len(tasks) :
            batch[k] = IF raw_format THEN raw_task_data(tasks[k])
                       ELSE prepare_row(tasks[k], full_output)
       /\ some_job_running = HasRunning(tasks)
  /\ pc = "sleep" => HasRunning(tasks) /\ poll_interval # 0
  /\ pc = "done" => ~(HasRunning(tasks) /\ poll_interval # 0)

\* C10 witness: raw_format, a batch of two raw elements with a RUNNING task,
\* and the generator sleeps before the next query
C10_Witness ==
  /\ raw_format
  /\ pc = "sleep"
  /\ Len(batch) = 2
  /\ batch[1] = raw_task_data(tasks[1])
  /\ HasRunning(tasks)

(***************************************************************************)
(* Properties of the projection and the formatters.                        *)
(***************************************************************************)
\* an OrderedDict's labels, and the value under one of them
Labels(od) == { od[i][1] : i \in 1..Len(od) }
ValueOf(od, label) == od[CHOOSE i \in 1..Len(od) : od[i][1] = label][2]

ShortKeys == { "job-name", "last-update", "status-message" }
FullKeys ==
  { "job-name", "last-update", "job-id", "user-id", "status", "status-detail",
    "create-time", "end-time", "internal-id", "logging", "inputs", "outputs",
    "envs", "labels" }
DeclaredDefault(key) ==
  CASE key = "end-time" -> NA
    [] key \in {"inputs", "outputs", "envs", "labels"} -> EmptyMap
    [] OTHER -> None
Resolved(task, key) ==
  IF key \in DOMAIN task.fields THEN task.fields[key] ELSE DeclaredDefault(key)

\* C3: the keys of prepare_row(task, full) are the non-optional columns of
\* the active set, each with the task's value or the declared default, and
\* task-id exactly when its value is truthy.  Checked under SpecRow.
C3_RowKeys ==
  pc \in {"present", "shown"} =>
    LET task == tasks[1]
        row == batch[1]
        required == IF full_output THEN FullKeys ELSE ShortKeys
        tid == Resolved(task, "task-id")
    IN /\ DOMAIN row = required \cup (IF Truthy(tid) THEN {"task-id"} ELSE {})
       /\ \A key \in DOMAIN row : row[key] = Resolved(task, key)

\* C3 witness: a full row of a task without end-time whose task-id is the
\* empty string
C3_Witness ==
  /\ pc = "present"
  /\ full_output
  /\ "end-time" \notin DOMAIN tasks[1].fields
  /\ "task-id" \in DOMAIN tasks[1].fields
  /\ tasks[1].fields["task-id"] = PyStr(<< >>)
  /\ "task-id" \notin DOMAIN batch[1]
  /\ batch[1]["end-time"] = NA

\* the rule of C4 for the value shown under a label
TruncationRule(full, value, shown) ==
  Len(value.s) > 30 =>
    shown = IF full THEN value
            ELSE PyStr(SubSeq(value.s, 1, 27) \o <<Dot, Dot, Dot>>)

\* C4 (as claimed): the text formatter shortens a status-detail, and a
\* status-message, of more than 30 characters to 27 characters and '...'
\* unless full is set.  Checked under SpecRow.
C4_BothTruncated ==
  (pc = "shown" /\ output_formatter.kind = "text") =>
    LET row == batch[1]
        shown == table[1]
    IN /\ "status-detail" \in DOMAIN row =>
            TruncationRule(output_formatter.full, row["status-detail"],
                           ValueOf(shown, "Status-details"))
       /\ "status-message" \in DOMAIN row =>
            TruncationRule(output_formatter.full, row["status-message"],
                           ValueOf(shown, "Status"))

\* C4 (amended): the text formatter shortens a status-message of more than
\* 30 characters to 27 characters and '...' unless full is set; it shows a
\* status-detail as it is, whatever full is.  Checked under SpecRow.
C4_StatusMessageTruncated ==
  (pc = "shown" /\ output_formatter.kind = "text") =>
    LET row == batch[1]
        shown == table[1]
    IN /\ "status-detail" \in DOMAIN row =>
            ValueOf(shown, "Status-details") = row["status-detail"]
       /\ "status-message" \in DOMAIN row =>
            /\ "Status" \in Labels(shown)
            /\ TruncationRule(output_formatter.full, row["status-message"],
                              ValueOf(shown, "Status"))

\* C4 witness: a status-message of more than 30 characters was shown by a
\* text formatter without full
C4_Witness ==
  /\ pc = "shown"
  /\ output_formatter = OutputFormatter("text", FALSE)
  /\ "status-message" \in DOMAIN batch[1]
  /\ Len(batch[1]["status-message"].s) > 30
  /\ Len(ValueOf(table[1], "Status").s) = 30

\* C8 (as claimed): the display row a formatter makes of a projected row
\* has one entry per key of the row: the row itself for YAML and JSON, the
\* label of every key for text.  Checked under Spec, on the rows main
\* renders.
C8_NoFieldDropped ==
  (pc = "rows" /\ row_idx > 1 /\ ~raw_format) =>
    LET row == batch[row_idx - 1]
        shown == table[1]
    IN IF output_formatter.kind = "text"
       THEN /\ Len(shown) = Cardinality(DOMAIN row)
            /\ \A key \in DOMAIN row :
                 \E i \in 1..Len(column_map) :
                   /\ column_map[i].field = key
                   /\ column_map[i].label \in Labels(shown)
       ELSE shown = row

=============================================================================
